---- MODULE Spec2Model ----
(***************************************************************************)
(* A model of the spatial optimisation engine of scXML_neuron_excite_inhib *)
(* (serpentine.py, tsp.py, reduce.py, assign.py).  Each Python function is *)
(* a state machine over the variables below or, when it is pure, an        *)
(* operator applied by an action.  Coordinates are integers; every         *)
(* comparison of Euclidean distances is decided exactly on the squared     *)
(* distances, so no rounding is modelled.                                  *)
(***************************************************************************)
EXTENDS Integers, Sequences, FiniteSets, TLC

VARIABLES
    pc,              \* position of the running function
    wells,           \* generate_serpentine_wells: the list being built
    row_idx,         \* generate_serpentine_wells: enumerate() index of the row loop
    col_pos,         \* generate_serpentine_wells: position in the column loop
    num_samples,     \* calculate_dynamic_blanks: argument
    quadrant_size,   \* calculate_dynamic_blanks: argument
    num_blanks,      \* calculate_dynamic_blanks: return value
    points,          \* rdp_algorithm: the shape, a sequence of <<x, y>>
    epsilon,         \* rdp_algorithm: the tolerance, counted in halves (1 is 0.5)
    result,          \* rdp_algorithm: the returned points, as positions of `points`
    centroids,       \* optimize_tsp: the points, centroids[k + 1] is Python's centroids[k]
    start_index,     \* optimize_tsp: argument
    unvisited,       \* greedy_tsp: set of indices
    current,         \* greedy_tsp: index of the current point
    tour,            \* greedy_tsp / two_opt_improve: the tour, 0-based indices
    greedy_tour,     \* the tour as greedy_tsp returned it (history of `tour`)
    i,               \* two_opt_improve: outer loop variable
    j,               \* two_opt_improve: inner loop variable
    improved,        \* two_opt_improve
    iteration,       \* two_opt_improve
    caller,          \* which optimize_tsp call of assign_wells is running, or "none"
    inhib_shapes,    \* assign_wells: parse_shapes(inhib_lines), a sequence of shapes
    excite_shapes,   \* assign_wells: parse_shapes(excite_lines)
    random_seed,     \* assign_wells: argument
    inhib_tour,      \* assign_wells
    excite_tour,     \* assign_wells
    combined_metadata, \* assign_wells
    blank_positions, \* assign_wells: the sorted sample, as a set
    position_idx,    \* assign_wells: loop variable of the walk over wells
    sample_idx,      \* assign_wells
    well_mapping,    \* assign_wells
    well_labels_for_xml, \* assign_wells
    csv_file,        \* the rows written to output_csv, or "none"
    xml_file,        \* the CapID labels written to output_xml, or "none"
    shapes,          \* reduce_xml_file: parse_shapes(file_lines)[0], a sequence of shapes
    caps,            \* reduce_xml_file: parse_shapes(file_lines)[1], a sequence of CapIDs
    reduced_shapes,  \* reduce_shapes
    annotations,     \* reduce_shapes
    idx,             \* reduce_shapes: loop variable
    initial_points,  \* reduce_shapes
    final_points,    \* reduce_shapes
    output_file,     \* what write_xml_file wrote to output_path: <<>> or <<content>>
    run,             \* which invocation of assign_wells is running: 1 or 2
    first_run        \* arguments and outputs of the first invocation: <<>> or <<record>>

wellVars  == <<wells, row_idx, col_pos>>
blankVars == <<num_samples, quadrant_size, num_blanks>>
rdpVars   == <<points, epsilon, result>>
tspVars   == <<centroids, start_index, unvisited, current, tour, greedy_tour,
               i, j, improved, iteration>>
assignVars == <<caller, inhib_shapes, excite_shapes, random_seed, inhib_tour, excite_tour,
                combined_metadata, blank_positions, position_idx, sample_idx,
                well_mapping, well_labels_for_xml, csv_file, xml_file>>
reduceVars == <<shapes, caps, reduced_shapes, annotations, idx, initial_points,
                final_points, output_file>>
runVars   == <<run, first_run>>
vars == <<pc, wellVars, blankVars, rdpVars, tspVars, assignVars, reduceVars, runVars>>

(***************************************************************************)
(* Bounds of the model.                                                    *)
(***************************************************************************)
MaxSamples == 160
MaxQuadrant == 6
\* rdp_algorithm: shapes of 2..MaxPts points on the grid (0..RdpMaxX) x (0..RdpMaxY),
\* epsilon in 0, 0.5, .., MaxEpsilon/2
MaxPts == 4
RdpMaxX == 3
RdpMaxY == 1
MaxEpsilon == 2
\* optimize_tsp: 0..MaxN centroids on the grid (0..TspMaxX) x (0..TspMaxY)
MaxN == 4
TspMaxX == 2
TspMaxY == 2
\* assign_wells: groups of 0..MaxGroup shapes of AssignShapes, and one pair of
\* groups of BigGroupSize shapes each, which does not fit the plate
\* reduce_xml_file: files of 0..MaxShapes shapes
MaxShapes == 2
MaxGroup == 1
BigGroupSize == 116

(***************************************************************************)
(* Python helpers.                                                         *)
(***************************************************************************)
\* range(start, stop, step) as a sequence
RECURSIVE range(_, _, _)
range(start, stop, step) ==
    IF (step > 0 /\ start >= stop) \/ (step < 0 /\ start <= stop)
    THEN <<>>
    ELSE <<start>> \o range(start + step, stop, step)

\* reversed(s)
reversed(s) == [k \in 1..Len(s) |-> s[Len(s) + 1 - k]]

\* s[k] of a Python list
At(s, k) == s[k + 1]

(***************************************************************************)
(* serpentine.py                                                           *)
(***************************************************************************)
\* f"{row}{col}"
FormatWell(row, col) == row \o ToString(col)

phase1_rows == <<"B", "D", "F", "H", "J", "L", "N">>
phase1_cols == range(2, 23, 2)
phase2_cols_ascending == range(3, 24, 2)

phase2_cols == range(23, 2, -2)
phase3_rows == <<"L", "J", "H", "F", "D", "B">>
phase3_cols == range(3, 24, 2)
phase4_rows == <<"C", "E", "G", "I", "K", "M", "O">>
phase4_cols == range(2, 23, 2)

\* the column visited at position k (0-based) of the inner loop of row r (0-based)
SerpentineCol_no_turn(cols, r, k) == cols[k + 1]

SerpentineCol(cols, r, k) ==
    IF r % 2 = 0 THEN cols[k + 1] ELSE reversed(cols)[k + 1]

\* one wells.append of a serpentine phase, and the loop bookkeeping after it
PhaseAppend(here, next, rows, cols) ==
    /\ pc = here
    /\ wells' = Append(wells, FormatWell(rows[row_idx + 1], SerpentineCol(cols, row_idx, col_pos)))
    /\ IF col_pos + 1 < Len(cols)
       THEN /\ col_pos' = col_pos + 1
            /\ UNCHANGED <<row_idx, pc>>
       ELSE /\ col_pos' = 0
            /\ IF row_idx + 1 < Len(rows)
               THEN row_idx' = row_idx + 1 /\ UNCHANGED pc
               ELSE row_idx' = 0 /\ pc' = next
    /\ UNCHANGED <<blankVars, rdpVars, reduceVars, runVars, tspVars, assignVars>>

Phase1Append == PhaseAppend("phase1", "phase2", phase1_rows, phase1_cols)

Phase2Append ==
    /\ pc = "phase2"
    /\ wells' = Append(wells, FormatWell("N", phase2_cols[col_pos + 1]))
    /\ IF col_pos + 1 < Len(phase2_cols)
       THEN col_pos' = col_pos + 1 /\ UNCHANGED pc
       ELSE col_pos' = 0 /\ pc' = "phase3"
    /\ UNCHANGED <<row_idx, blankVars, rdpVars, reduceVars, runVars, tspVars, assignVars>>

Phase3Append == PhaseAppend("phase3", "phase4", phase3_rows, phase3_cols)

Phase4Append == PhaseAppend("phase4", "wells_return", phase4_rows, phase4_cols)

WellsReturn ==
    /\ pc = "wells_return"
    /\ pc' = "wells_done"
    /\ UNCHANGED <<wellVars, blankVars, rdpVars, reduceVars, runVars, tspVars, assignVars>>

\* generate_serpentine_wells() as a function: the list its loops build
RECURSIVE SerpentineRows(_, _, _)
SerpentineRows(rows, cols, r) ==
    IF r >= Len(rows) THEN <<>>
    ELSE [k \in 1..Len(cols) |-> FormatWell(rows[r + 1], SerpentineCol(cols, r, k - 1))]
         \o SerpentineRows(rows, cols, r + 1)

generate_serpentine_wells ==
    SerpentineRows(phase1_rows, phase1_cols, 0)
    \o [k \in 1..Len(phase2_cols) |-> FormatWell("N", phase2_cols[k])]
    \o SerpentineRows(phase3_rows, phase3_cols, 0)
    \o SerpentineRows(phase4_rows, phase4_cols, 0)

\* calculate_dynamic_blanks(num_samples, quadrant_size)
calculate_dynamic_blanks_zero(n, q) == q - (n % q)

calculate_dynamic_blanks(n, q) ==
    LET samples_in_current_quadrant == n % q
    IN  IF samples_in_current_quadrant > 0
        THEN q - samples_in_current_quadrant
        ELSE 0

\* default of the quadrant_size parameter
DefaultQuadrantSize == 77

CalculateDynamicBlanks ==
    /\ pc = "blanks_call"
    /\ num_blanks' = calculate_dynamic_blanks(num_samples, quadrant_size)
    /\ pc' = "blanks_done"
    /\ UNCHANGED <<wellVars, num_samples, quadrant_size, rdpVars, reduceVars, runVars,
                   tspVars, assignVars>>

(***************************************************************************)
(* reduce.py                                                               *)
(***************************************************************************)
Abs(x) == IF x < 0 THEN -x ELSE x

\* a - b on points
Minus(a, b) == <<a[1] - b[1], a[2] - b[2]>>

\* np.cross of two 2-vectors
cross(a, b) == a[1] * b[2] - a[2] * b[1]

\* np.linalg.norm(v) squared
norm_sq(v) == v[1] * v[1] + v[2] * v[2]

\* result += [list(i) for i in partial_results_right if list(i) not in result]
\* with result holding the left results: a right point is dropped when its
\* coordinates equal those of any point of the left results
merge_keep_all(P, left, right) == left \o right

merge(P, left, right) ==
    left \o SelectSeq(right, LAMBDA q : \A r \in 1..Len(left) : P[left[r]] # P[q])

\* |cross(end - start, P[k] - start)|, the numerator of dist_point_to_line[k]
\* of the call on points[lo..hi]
dist_num(P, lo, hi, k) == Abs(cross(Minus(P[hi], P[lo]), Minus(P[k], P[lo])))

\* with end = start every entry of dist_point_to_line is 0/0 = nan
dist_isnan(P, lo, hi) == norm_sq(Minus(P[hi], P[lo])) = 0

\* np.argmax(dist_point_to_line): the first position of the maximum, and the
\* first position of all when the entries are nan
max_idx(P, lo, hi) ==
    IF dist_isnan(P, lo, hi) THEN lo
    ELSE CHOOSE k \in lo..hi :
            /\ \A m \in lo..hi : dist_num(P, lo, hi, m) <= dist_num(P, lo, hi, k)
            /\ \A m \in lo..(k - 1) : dist_num(P, lo, hi, m) < dist_num(P, lo, hi, k)

\* max_value > epsilon, epsilon = eps / 2; nan > epsilon is False
max_value_reaches(P, lo, hi, eps) ==
    LET n == dist_num(P, lo, hi, max_idx(P, lo, hi))
    IN  ~dist_isnan(P, lo, hi) /\ 4 * n * n >= eps * eps * norm_sq(Minus(P[hi], P[lo]))

max_value_exceeds_half(P, lo, hi, eps) ==
    LET n == dist_num(P, lo, hi, max_idx(P, lo, hi))
    IN  ~dist_isnan(P, lo, hi) /\ 16 * n * n > eps * eps * norm_sq(Minus(P[hi], P[lo]))

max_value_exceeds(P, lo, hi, eps) ==
    LET n == dist_num(P, lo, hi, max_idx(P, lo, hi))
    IN  ~dist_isnan(P, lo, hi) /\ 4 * n * n > eps * eps * norm_sq(Minus(P[hi], P[lo]))

\* rdp_algorithm(points[lo..hi], epsilon), returning positions of P
RECURSIVE rdp_algorithm(_, _, _, _)
rdp_algorithm(P, lo, hi, eps) ==
    IF max_value_exceeds(P, lo, hi, eps)
    THEN merge(P, rdp_algorithm(P, lo, max_idx(P, lo, hi), eps),
                  rdp_algorithm(P, max_idx(P, lo, hi), hi, eps))
    ELSE <<lo, hi>>

RdpCall ==
    /\ pc = "rdp_call"
    /\ result' = rdp_algorithm(points, 1, Len(points), epsilon)
    /\ pc' = "rdp_done"
    /\ UNCHANGED <<wellVars, blankVars, points, epsilon, tspVars, assignVars, reduceVars, runVars>>

\* preserve_cap = len(caps) == len(shapes)
preserve_cap == Len(caps) = Len(shapes)

\* reduce_xml_file up to the loop of reduce_shapes (reduce.py:136-150, 79-84)
ReduceCall ==
    /\ pc = "reduce_call"
    /\ reduced_shapes' = <<>>
    /\ annotations' = <<>>
    /\ idx' = 0
    /\ initial_points' = 0
    /\ final_points' = 0
    /\ pc' = "reduce_loop"
    /\ UNCHANGED <<shapes, caps, output_file>>
    /\ UNCHANGED <<wellVars, blankVars, rdpVars, tspVars, assignVars, runVars>>

\* one iteration of `for idx in range(len(shapes))` (reduce.py:86-102); the
\* polygon area, a statistic, is left out
ReduceShape ==
    /\ pc = "reduce_loop"
    /\ idx < Len(shapes)
    /\ LET pts == At(shapes, idx)
           reduced_points == rdp_algorithm(pts, 1, Len(pts), epsilon)
       IN  /\ points' = pts
           /\ result' = reduced_points
           /\ reduced_shapes' = Append(reduced_shapes,
                                       [k \in 1..Len(reduced_points) |-> pts[reduced_points[k]]])
           /\ initial_points' = initial_points + Len(pts)
           /\ final_points' = final_points + Len(reduced_points)
    /\ annotations' = IF preserve_cap /\ caps # <<>>
                      THEN Append(annotations, At(caps, idx))
                      ELSE annotations
    /\ idx' = idx + 1
    /\ UNCHANGED <<pc, epsilon, shapes, caps, output_file>>
    /\ UNCHANGED <<wellVars, blankVars, tspVars, assignVars, runVars>>

\* reduce_shapes returns; replace_shapes builds the output and write_xml_file
\* writes it (reduce.py:104-173): the shape count, the shapes and, with
\* preserve_cap, their CapIDs
ReduceWrite ==
    /\ pc = "reduce_loop"
    /\ idx >= Len(shapes)
    /\ output_file' = <<[ShapeCount |-> Len(reduced_shapes),
                         Shapes |-> reduced_shapes,
                         CapIDs |-> IF preserve_cap THEN annotations ELSE <<>>]>>
    /\ pc' = "reduce_done"
    /\ UNCHANGED <<shapes, caps, reduced_shapes, annotations, idx, initial_points, final_points>>
    /\ UNCHANGED <<wellVars, blankVars, rdpVars, tspVars, assignVars, runVars>>

(***************************************************************************)
(* tsp.py                                                                  *)
(***************************************************************************)
\* calculate_distance(p1, p2) squared
dist_sq(p1, p2) == (p1[1] - p2[1]) * (p1[1] - p2[1]) + (p1[2] - p2[2]) * (p1[2] - p2[2])

\* sqrt(a) + sqrt(b) < sqrt(c) + sqrt(d) for naturals a, b, c, d, decided on
\* integers: squaring both sides leaves sqrt(4ab) - sqrt(4cd) < c + d - a - b
SumLess(a, b, c, d) ==
    LET K == c + d - a - b
        P == 4 * a * b
        Q == 4 * c * d
    IN  IF K > 0
        THEN LET S == P - Q - K * K
             IN  S < 0 \/ S * S < 4 * K * K * Q
        ELSE LET R == Q - P - K * K
             IN  R > 0 /\ 4 * K * K * P < R * R

\* min(unvisited, key=lambda i: calculate_distance(centroids[current], centroids[i])):
\* the first minimum in the iteration order of the set, ascending for a
\* set(range(n)) of small integers
nearest_highest_index(C, cur, unv) ==
    CHOOSE k \in unv :
        \A m \in unv : \/ dist_sq(At(C, cur), At(C, k)) < dist_sq(At(C, cur), At(C, m))
                       \/ dist_sq(At(C, cur), At(C, k)) = dist_sq(At(C, cur), At(C, m)) /\ k >= m

nearest(C, cur, unv) ==
    CHOOSE k \in unv :
        \A m \in unv : \/ dist_sq(At(C, cur), At(C, k)) < dist_sq(At(C, cur), At(C, m))
                       \/ dist_sq(At(C, cur), At(C, k)) = dist_sq(At(C, cur), At(C, m)) /\ k <= m

\* tour[i:j+1] = list(reversed(tour[i:j+1]))
reverse_segment_drops_last(t, a, b) ==
    SubSeq(t, 1, a) \o reversed(SubSeq(t, a + 1, b)) \o SubSeq(t, b + 2, Len(t))

reverse_segment(t, a, b) ==
    [k \in 1..Len(t) |-> IF k - 1 >= a /\ k - 1 <= b THEN t[a + b + 2 - k] ELSE t[k]]

\* new_dist < current_dist for the pair (a, b) of tour positions
shorter_or_equal_if_reversed(C, t, a, b) ==
    LET n == Len(t)
    IN  ~SumLess(dist_sq(At(C, At(t, a - 1)), At(C, At(t, a))),
                 dist_sq(At(C, At(t, b)), At(C, At(t, (b + 1) % n))),
                 dist_sq(At(C, At(t, a - 1)), At(C, At(t, b))),
                 dist_sq(At(C, At(t, a)), At(C, At(t, (b + 1) % n))))

shorter_if_reversed_no_wrap(C, t, a, b) ==
    LET n == Len(t)
    IN  /\ b + 1 < n
        /\ SumLess(dist_sq(At(C, At(t, a - 1)), At(C, At(t, b))),
                   dist_sq(At(C, At(t, a)), At(C, At(t, b + 1))),
                   dist_sq(At(C, At(t, a - 1)), At(C, At(t, a))),
                   dist_sq(At(C, At(t, b)), At(C, At(t, b + 1))))

shorter_if_reversed(C, t, a, b) ==
    LET n == Len(t)
    IN  SumLess(dist_sq(At(C, At(t, a - 1)), At(C, At(t, b))),
                dist_sq(At(C, At(t, a)), At(C, At(t, (b + 1) % n))),
                dist_sq(At(C, At(t, a - 1)), At(C, At(t, a))),
                dist_sq(At(C, At(t, b)), At(C, At(t, (b + 1) % n))))

\* default of two_opt_improve's max_iterations
max_iterations == 1000

\* greedy_tsp up to its loop; unvisited.remove(current) raises KeyError when
\* start_index is not in range(n)
GreedyStart ==
    /\ pc = "greedy_call"
    /\ IF start_index \in 0..(Len(centroids) - 1)
       THEN /\ unvisited' = (0..(Len(centroids) - 1)) \ {start_index}
            /\ current' = start_index
            /\ tour' = <<start_index>>
            /\ pc' = "greedy_loop"
       ELSE /\ pc' = "tsp_error"
            /\ UNCHANGED <<unvisited, current, tour>>
    /\ UNCHANGED <<centroids, start_index, greedy_tour, i, j, improved, iteration>>
    /\ UNCHANGED <<wellVars, blankVars, rdpVars, reduceVars, runVars, assignVars>>

\* one iteration of `while unvisited`
GreedyStep ==
    /\ pc = "greedy_loop"
    /\ unvisited # {}
    /\ LET nxt == nearest(centroids, current, unvisited)
       IN  /\ tour' = Append(tour, nxt)
           /\ current' = nxt
           /\ unvisited' = unvisited \ {nxt}
    /\ UNCHANGED <<pc, centroids, start_index, greedy_tour, i, j, improved, iteration>>
    /\ UNCHANGED <<wellVars, blankVars, rdpVars, reduceVars, runVars, assignVars>>

\* greedy_tsp returns; two_opt_improve starts
GreedyReturn ==
    /\ pc = "greedy_loop"
    /\ unvisited = {}
    /\ greedy_tour' = tour
    /\ improved' = TRUE
    /\ iteration' = 0
    /\ pc' = "two_opt_while"
    /\ UNCHANGED <<centroids, start_index, unvisited, current, tour, i, j>>
    /\ UNCHANGED <<wellVars, blankVars, rdpVars, reduceVars, runVars, assignVars>>

\* while improved and iteration < max_iterations: a pass begins
TwoOptPassBegin ==
    /\ pc = "two_opt_while"
    /\ improved /\ iteration < max_iterations
    /\ improved' = FALSE
    /\ i' = 1
    /\ j' = 2
    /\ pc' = "two_opt_for"
    /\ UNCHANGED <<centroids, start_index, unvisited, current, tour, greedy_tour, iteration>>
    /\ UNCHANGED <<wellVars, blankVars, rdpVars, reduceVars, runVars, assignVars>>

\* the loop variables after the pair (i, j): j runs over range(i + 1, n)
TwoOptAdvance ==
    IF j + 1 <= Len(tour) - 1
    THEN i' = i /\ j' = j + 1
    ELSE i' = i + 1 /\ j' = i + 2

\* the pair (i, j) is strictly shorter reversed: reverse tour[i..j]
TwoOptReverse ==
    /\ pc = "two_opt_for"
    /\ i < Len(tour) - 1
    /\ shorter_if_reversed(centroids, tour, i, j)
    /\ tour' = reverse_segment(tour, i, j)
    /\ improved' = TRUE
    /\ TwoOptAdvance
    /\ UNCHANGED <<pc, centroids, start_index, unvisited, current, greedy_tour, iteration>>
    /\ UNCHANGED <<wellVars, blankVars, rdpVars, reduceVars, runVars, assignVars>>

\* the pair (i, j) is not shorter reversed
TwoOptKeep ==
    /\ pc = "two_opt_for"
    /\ i < Len(tour) - 1
    /\ ~shorter_if_reversed(centroids, tour, i, j)
    /\ TwoOptAdvance
    /\ UNCHANGED <<pc, centroids, start_index, unvisited, current, tour, greedy_tour,
                   improved, iteration>>
    /\ UNCHANGED <<wellVars, blankVars, rdpVars, reduceVars, runVars, assignVars>>

\* range(1, n - 1) is exhausted: iteration += 1
TwoOptPassEnd ==
    /\ pc = "two_opt_for"
    /\ i >= Len(tour) - 1
    /\ iteration' = iteration + 1
    /\ pc' = "two_opt_while"
    /\ UNCHANGED <<centroids, start_index, unvisited, current, tour, greedy_tour,
                   i, j, improved>>
    /\ UNCHANGED <<wellVars, blankVars, rdpVars, reduceVars, runVars, assignVars>>

\* the while condition fails: two_opt_improve and optimize_tsp return
TwoOptReturn ==
    /\ pc = "two_opt_while"
    /\ ~(improved /\ iteration < max_iterations)
    /\ pc' = "tsp_done"
    /\ UNCHANGED tspVars
    /\ UNCHANGED <<wellVars, blankVars, rdpVars, reduceVars, runVars, assignVars>>

(***************************************************************************)
(* xml_utils.py, assign.py                                                 *)
(***************************************************************************)
RECURSIVE SumSeq(_)
SumSeq(s) == IF s = <<>> THEN 0 ELSE Head(s) + SumSeq(Tail(s))

\* calculate_centroid(x, y) = (np.mean(x), np.mean(y)); the shapes of the model
\* have integer means
calculate_centroid(shape) ==
    <<SumSeq([k \in 1..Len(shape) |-> shape[k][1]]) \div Len(shape),
      SumSeq([k \in 1..Len(shape) |-> shape[k][2]]) \div Len(shape)>>

\* the centroid lists built at assign.py:70-74 and 89-93
Centroids(group) == [k \in 1..Len(group) |-> calculate_centroid(group[k])]

\* find_closest_point(reference_point, points)[0], for a non-empty list:
\* min over range(len(points)) keeps the first minimum
find_farthest_point(reference_point, pts) ==
    CHOOSE k \in 0..(Len(pts) - 1) :
        \A m \in 0..(Len(pts) - 1) :
            \/ dist_sq(reference_point, At(pts, k)) > dist_sq(reference_point, At(pts, m))
            \/ dist_sq(reference_point, At(pts, k)) = dist_sq(reference_point, At(pts, m)) /\ k <= m

find_closest_point(reference_point, pts) ==
    CHOOSE k \in 0..(Len(pts) - 1) :
        \A m \in 0..(Len(pts) - 1) :
            \/ dist_sq(reference_point, At(pts, k)) < dist_sq(reference_point, At(pts, m))
            \/ dist_sq(reference_point, At(pts, k)) = dist_sq(reference_point, At(pts, m)) /\ k <= m

\* the entries the loop over one tour appends to combined_metadata
Metadata(source, group, t) ==
    [k \in 1..Len(t) |-> [source |-> source,
                          original_idx |-> t[k],
                          centroid |-> calculate_centroid(At(group, t[k]))]]

\* combined_metadata after both loops
combine_excite_first(ishapes, itour, eshapes, etour) ==
    Metadata("excite0", eshapes, etour) \o Metadata("inhib0", ishapes, itour)

combine(ishapes, itour, eshapes, etour) ==
    Metadata("inhib0", ishapes, itour) \o Metadata("excite0", eshapes, etour)

\* sorted(random.sample(range(231), k)) after random.seed(25), CPython 3.11
sample_seed_25(k) ==
    CASE k = 68 ->
           {3, 8, 10, 17, 18, 19, 24, 25, 26, 31, 32, 41, 44, 46, 48, 50, 54, 56, 65, 78, 80,
           90, 91, 96, 103, 106, 108, 111, 114, 117, 120, 121, 126, 131, 134, 138, 140, 143,
           144, 147, 148, 149, 150, 153, 158, 159, 162, 173, 175, 181, 186, 193, 194, 196, 198,
           199, 203, 205, 213, 214, 215, 218, 219, 220, 222, 223, 224, 228}
      [] k = 69 ->
           {3, 8, 10, 17, 18, 19, 24, 25, 26, 31, 32, 41, 44, 46, 48, 50, 54, 56, 65, 78, 80,
           90, 91, 96, 103, 106, 108, 111, 114, 117, 120, 121, 126, 131, 134, 138, 140, 143,
           144, 147, 148, 149, 150, 153, 156, 158, 159, 162, 173, 175, 181, 186, 193, 194, 196,
           198, 199, 203, 205, 213, 214, 215, 218, 219, 220, 222, 223, 224, 228}
      [] k = 70 ->
           {3, 8, 10, 17, 18, 19, 24, 25, 26, 31, 32, 41, 44, 46, 48, 50, 54, 56, 65, 78, 80,
           90, 91, 96, 103, 106, 108, 111, 114, 117, 120, 121, 126, 129, 131, 134, 138, 140,
           143, 144, 147, 148, 149, 150, 153, 156, 158, 159, 162, 173, 175, 181, 186, 193, 194,
           196, 198, 199, 203, 205, 213, 214, 215, 218, 219, 220, 222, 223, 224, 228}
      [] k = 71 ->
           {3, 8, 10, 17, 18, 19, 24, 25, 26, 31, 32, 41, 44, 46, 48, 50, 54, 56, 65, 78, 80,
           90, 91, 96, 103, 106, 108, 111, 114, 117, 120, 121, 123, 126, 129, 131, 134, 138,
           140, 143, 144, 147, 148, 149, 150, 153, 156, 158, 159, 162, 173, 175, 181, 186, 193,
           194, 196, 198, 199, 203, 205, 213, 214, 215, 218, 219, 220, 222, 223, 224, 228}
      [] k = 72 ->
           {3, 8, 10, 17, 18, 19, 24, 25, 26, 31, 32, 41, 44, 46, 48, 50, 54, 56, 65, 78, 80,
           90, 91, 96, 103, 106, 108, 111, 113, 114, 117, 120, 121, 123, 126, 129, 131, 134,
           138, 140, 143, 144, 147, 148, 149, 150, 153, 156, 158, 159, 162, 173, 175, 181, 186,
           193, 194, 196, 198, 199, 203, 205, 213, 214, 215, 218, 219, 220, 222, 223, 224, 228}
      [] k = 73 ->
           {3, 8, 10, 14, 17, 18, 19, 24, 25, 26, 31, 32, 41, 44, 46, 48, 50, 54, 56, 65, 78,
           80, 90, 91, 96, 103, 106, 108, 111, 113, 114, 117, 120, 121, 123, 126, 129, 131,
           134, 138, 140, 143, 144, 147, 148, 149, 150, 153, 156, 158, 159, 162, 173, 175, 181,
           186, 193, 194, 196, 198, 199, 203, 205, 213, 214, 215, 218, 219, 220, 222, 223, 224,
           228}
      [] k = 74 ->
           {3, 8, 10, 14, 17, 18, 19, 24, 25, 26, 31, 32, 41, 44, 46, 48, 50, 54, 56, 65, 78,
           80, 90, 91, 96, 103, 106, 108, 111, 113, 114, 117, 120, 121, 123, 126, 129, 131,
           134, 138, 140, 143, 144, 147, 148, 149, 150, 153, 156, 158, 159, 162, 163, 173, 175,
           181, 186, 193, 194, 196, 198, 199, 203, 205, 213, 214, 215, 218, 219, 220, 222, 223,
           224, 228}
      [] k = 75 ->
           {3, 8, 10, 14, 17, 18, 19, 24, 25, 26, 31, 32, 41, 44, 46, 48, 50, 54, 56, 65, 72,
           78, 80, 90, 91, 96, 103, 106, 108, 111, 113, 114, 117, 120, 121, 123, 126, 129, 131,
           134, 138, 140, 143, 144, 147, 148, 149, 150, 153, 156, 158, 159, 162, 163, 173, 175,
           181, 186, 193, 194, 196, 198, 199, 203, 205, 213, 214, 215, 218, 219, 220, 222, 223,
           224, 228}
      [] k = 76 ->
           {3, 8, 10, 14, 17, 18, 19, 24, 25, 26, 31, 32, 41, 43, 44, 46, 48, 50, 54, 56, 65,
           72, 78, 80, 90, 91, 96, 103, 106, 108, 111, 113, 114, 117, 120, 121, 123, 126, 129,
           131, 134, 138, 140, 143, 144, 147, 148, 149, 150, 153, 156, 158, 159, 162, 163, 173,
           175, 181, 186, 193, 194, 196, 198, 199, 203, 205, 213, 214, 215, 218, 219, 220, 222,
           223, 224, 228}

\* sorted(random.sample(range(231), k)) after random.seed(7), CPython 3.11
sample_seed_7(k) ==
    CASE k = 68 ->
           {9, 11, 12, 14, 15, 16, 17, 18, 22, 23, 24, 26, 30, 31, 34, 36, 38, 46, 48, 52, 54,
           56, 57, 61, 74, 78, 80, 82, 93, 95, 101, 107, 108, 109, 111, 119, 127, 129, 136,
           137, 138, 140, 141, 142, 143, 144, 146, 147, 148, 149, 158, 160, 161, 163, 166, 174,
           186, 198, 200, 201, 206, 207, 210, 213, 220, 222, 226, 228}
      [] k = 69 ->
           {9, 11, 12, 14, 15, 16, 17, 18, 22, 23, 24, 26, 30, 31, 34, 36, 38, 46, 48, 52, 54,
           56, 57, 61, 74, 78, 80, 82, 93, 95, 101, 107, 108, 109, 111, 116, 119, 127, 129,
           136, 137, 138, 140, 141, 142, 143, 144, 146, 147, 148, 149, 158, 160, 161, 163, 166,
           174, 186, 198, 200, 201, 206, 207, 210, 213, 220, 222, 226, 228}
      [] k = 70 ->
           {9, 11, 12, 14, 15, 16, 17, 18, 22, 23, 24, 26, 30, 31, 34, 36, 38, 46, 48, 52, 54,
           56, 57, 61, 74, 78, 80, 82, 92, 93, 95, 101, 107, 108, 109, 111, 116, 119, 127, 129,
           136, 137, 138, 140, 141, 142, 143, 144, 146, 147, 148, 149, 158, 160, 161, 163, 166,
           174, 186, 198, 200, 201, 206, 207, 210, 213, 220, 222, 226, 228}
      [] k = 71 ->
           {9, 11, 12, 14, 15, 16, 17, 18, 22, 23, 24, 26, 30, 31, 34, 36, 38, 46, 48, 52, 54,
           56, 57, 61, 74, 76, 78, 80, 82, 92, 93, 95, 101, 107, 108, 109, 111, 116, 119, 127,
           129, 136, 137, 138, 140, 141, 142, 143, 144, 146, 147, 148, 149, 158, 160, 161, 163,
           166, 174, 186, 198, 200, 201, 206, 207, 210, 213, 220, 222, 226, 228}
      [] k = 72 ->
           {9, 11, 12, 14, 15, 16, 17, 18, 22, 23, 24, 26, 30, 31, 34, 36, 38, 46, 48, 52, 54,
           56, 57, 61, 63, 74, 76, 78, 80, 82, 92, 93, 95, 101, 107, 108, 109, 111, 116, 119,
           127, 129, 136, 137, 138, 140, 141, 142, 143, 144, 146, 147, 148, 149, 158, 160, 161,
           163, 166, 174, 186, 198, 200, 201, 206, 207, 210, 213, 220, 222, 226, 228}
      [] k = 73 ->
           {9, 11, 12, 14, 15, 16, 17, 18, 22, 23, 24, 26, 30, 31, 34, 36, 38, 46, 48, 52, 54,
           56, 57, 61, 63, 74, 76, 78, 80, 82, 92, 93, 95, 101, 107, 108, 109, 111, 116, 119,
           127, 129, 136, 137, 138, 140, 141, 142, 143, 144, 146, 147, 148, 149, 158, 160, 161,
           163, 166, 174, 182, 186, 198, 200, 201, 206, 207, 210, 213, 220, 222, 226, 228}
      [] k = 74 ->
           {9, 11, 12, 14, 15, 16, 17, 18, 22, 23, 24, 26, 30, 31, 34, 36, 38, 46, 48, 52, 54,
           56, 57, 61, 62, 63, 74, 76, 78, 80, 82, 92, 93, 95, 101, 107, 108, 109, 111, 116,
           119, 127, 129, 136, 137, 138, 140, 141, 142, 143, 144, 146, 147, 148, 149, 158, 160,
           161, 163, 166, 174, 182, 186, 198, 200, 201, 206, 207, 210, 213, 220, 222, 226, 228}
      [] k = 75 ->
           {9, 11, 12, 14, 15, 16, 17, 18, 20, 22, 23, 24, 26, 30, 31, 34, 36, 38, 46, 48, 52,
           54, 56, 57, 61, 62, 63, 74, 76, 78, 80, 82, 92, 93, 95, 101, 107, 108, 109, 111,
           116, 119, 127, 129, 136, 137, 138, 140, 141, 142, 143, 144, 146, 147, 148, 149, 158,
           160, 161, 163, 166, 174, 182, 186, 198, 200, 201, 206, 207, 210, 213, 220, 222, 226,
           228}
      [] k = 76 ->
           {9, 11, 12, 14, 15, 16, 17, 18, 20, 22, 23, 24, 26, 30, 31, 34, 36, 38, 46, 48, 52,
           54, 56, 57, 61, 62, 63, 74, 76, 78, 80, 82, 92, 93, 95, 101, 107, 108, 109, 111,
           116, 119, 127, 129, 136, 137, 138, 140, 141, 142, 143, 144, 146, 147, 148, 149, 158,
           160, 161, 163, 166, 174, 182, 186, 198, 199, 200, 201, 206, 207, 210, 213, 220, 222,
           226, 228}

\* random.seed(random_seed); sorted(random.sample(range(n), k)), as a set
random_sample_unseeded(seed, n, k) ==
    IF run = 1 THEN sample_seed_25(k) ELSE sample_seed_7(k)

random_sample(seed, n, k) ==
    IF seed = 25 THEN sample_seed_25(k) ELSE sample_seed_7(k)

abc == <<"A", "B", "C", "D", "E", "F", "G", "H", "I", "J",
         "K", "L", "M", "N", "O", "P", "Q", "R", "S", "T">>

\* well[0] and int(well[1:]): the row letter and column that format to `well`
ParseWell(well) ==
    CHOOSE rc \in (1..Len(abc)) \X (1..24) : FormatWell(abc[rc[1]], rc[2]) = well

\* get_quadrant(well)
get_quadrant_index_parity(well) ==
    LET row_is_even == ((ParseWell(well)[1] - 1) % 2 = 0)
        col_is_even == (ParseWell(well)[2] % 2 = 0)
    IN  IF row_is_even /\ col_is_even THEN "B2"
        ELSE IF row_is_even /\ ~col_is_even THEN "B3"
        ELSE IF ~row_is_even /\ col_is_even THEN "C2"
        ELSE "C3"

get_quadrant(well) ==
    LET row_idx_ == ParseWell(well)[1] - 1
        col_number == ParseWell(well)[2]
        row_is_even == (row_idx_ % 2 = 1)
        col_is_even == (col_number % 2 = 0)
    IN  IF row_is_even /\ col_is_even THEN "B2"
        ELSE IF row_is_even /\ ~col_is_even THEN "B3"
        ELSE IF ~row_is_even /\ col_is_even THEN "C2"
        ELSE "C3"

\* get_quadrant of every well of the sequence, by position
Quadrants == [k \in 1..Len(generate_serpentine_wells) |-> get_quadrant(generate_serpentine_wells[k])]

\* assign_wells up to its first optimize_tsp call (assign.py:54-76)
AssignStart ==
    /\ pc = "assign_call"
    /\ centroids' = Centroids(inhib_shapes)
    /\ start_index' = 0
    /\ caller' = "inhib"
    /\ pc' = "greedy_call"
    /\ UNCHANGED <<unvisited, current, tour, greedy_tour, i, j, improved, iteration>>
    /\ UNCHANGED <<inhib_shapes, excite_shapes, random_seed, inhib_tour, excite_tour,
                   combined_metadata, blank_positions, position_idx, sample_idx,
                   well_mapping, well_labels_for_xml, csv_file, xml_file>>
    /\ UNCHANGED <<wellVars, blankVars, rdpVars, reduceVars, runVars>>

\* the KeyError of greedy_tsp leaves assign_wells
AssignTspRaises ==
    /\ pc = "tsp_error"
    /\ caller # "none"
    /\ pc' = "assign_error"
    /\ UNCHANGED <<wellVars, blankVars, rdpVars, reduceVars, runVars, tspVars, assignVars>>

\* assign.py:78-106: the last inhib point, the closest excite point, and the
\* second optimize_tsp call; min() of an empty range raises ValueError
AssignLink ==
    /\ pc = "tsp_done"
    /\ caller = "inhib"
    /\ inhib_tour' = tour
    /\ IF excite_shapes = <<>>
       THEN /\ pc' = "assign_error"
            /\ UNCHANGED <<centroids, start_index, caller>>
       ELSE /\ centroids' = Centroids(excite_shapes)
            /\ start_index' = find_closest_point(At(centroids, tour[Len(tour)]),
                                                 Centroids(excite_shapes))
            /\ caller' = "excite"
            /\ pc' = "greedy_call"
    /\ UNCHANGED <<unvisited, current, tour, greedy_tour, i, j, improved, iteration>>
    /\ UNCHANGED <<inhib_shapes, excite_shapes, random_seed, excite_tour,
                   combined_metadata, blank_positions, position_idx, sample_idx,
                   well_mapping, well_labels_for_xml, csv_file, xml_file>>
    /\ UNCHANGED <<wellVars, blankVars, rdpVars, reduceVars, runVars>>

\* assign.py:108-146: the combined list and the well sequence
AssignCombine ==
    /\ pc = "tsp_done"
    /\ caller = "excite"
    /\ excite_tour' = tour
    /\ combined_metadata' = combine(inhib_shapes, inhib_tour, excite_shapes, tour)
    /\ wells' = generate_serpentine_wells
    /\ pc' = "assign_blanks"
    /\ UNCHANGED <<row_idx, col_pos, blankVars, rdpVars, reduceVars, runVars, tspVars>>
    /\ UNCHANGED <<caller, inhib_shapes, excite_shapes, random_seed, inhib_tour,
                   blank_positions, position_idx, sample_idx,
                   well_mapping, well_labels_for_xml, csv_file, xml_file>>

\* assign.py:150-176: the blank count, the seeded sample of blank positions
\* out of range(len(wells)), and the start of the walk
AssignBlanks ==
    /\ pc = "assign_blanks"
    /\ num_samples' = Len(combined_metadata)
    /\ num_blanks' = calculate_dynamic_blanks(Len(combined_metadata), DefaultQuadrantSize)
    /\ blank_positions' =
          IF calculate_dynamic_blanks(Len(combined_metadata), DefaultQuadrantSize) > 0
          THEN random_sample(random_seed, Len(wells),
                             calculate_dynamic_blanks(Len(combined_metadata), DefaultQuadrantSize))
          ELSE {}
    /\ sample_idx' = 0
    /\ position_idx' = 0
    /\ well_mapping' = <<>>
    /\ well_labels_for_xml' = <<>>
    /\ pc' = "assign_walk"
    /\ UNCHANGED <<wellVars, quadrant_size, rdpVars, reduceVars, runVars, tspVars>>
    /\ UNCHANGED <<caller, inhib_shapes, excite_shapes, random_seed, inhib_tour, excite_tour,
                   combined_metadata, csv_file, xml_file>>

\* the entry of a blank well (assign.py:184-193)
BlankEntry(W, pos) ==
    [well_position |-> At(W, pos),
     serpentine_order |-> pos,
     sample_index |-> "BLANK",
     source_file |-> "BLANK",
     original_shape_index |-> "BLANK",
     centroid |-> "",
     quadrant |-> At(Quadrants, pos)]

\* the entry of a sample well (assign.py:197-206); the centroid is kept as the
\* pair of numbers that the code formats with two decimals
SampleEntry(W, meta, pos, sidx) ==
    [well_position |-> At(W, pos),
     serpentine_order |-> pos,
     sample_index |-> sidx,
     source_file |-> At(meta, sidx).source,
     original_shape_index |-> At(meta, sidx).original_idx,
     centroid |-> At(meta, sidx).centroid,
     quadrant |-> At(Quadrants, pos)]

\* one iteration of `for position_idx in range(len(wells))` (assign.py:178-209)
\* on the loop's state st: a blank position appends a blank entry, any other
\* position appends the next sample while one is left and nothing after that
walk_step(W, blanks, meta, pos, st) ==
    IF pos \in blanks
    THEN [st EXCEPT !.well_mapping = Append(@, BlankEntry(W, pos))]
    ELSE IF st.sample_idx < Len(meta)
    THEN [well_mapping |-> Append(st.well_mapping, SampleEntry(W, meta, pos, st.sample_idx)),
          well_labels_for_xml |-> Append(st.well_labels_for_xml, At(W, pos)),
          sample_idx |-> st.sample_idx + 1]
    ELSE st

\* the iterations for the positions lo..hi-1 in ascending order; the range is
\* split in halves, and the first half's state is computed (its sample_idx is
\* read) before the second half starts, to keep the evaluation shallow
RECURSIVE walk(_, _, _, _, _, _)
walk(W, blanks, meta, lo, hi, st) ==
    IF lo >= hi THEN st
    ELSE IF hi = lo + 1 THEN walk_step(W, blanks, meta, lo, st)
    ELSE LET mid == (lo + hi) \div 2
             first == walk(W, blanks, meta, lo, mid, st)
         IN  IF first.sample_idx >= st.sample_idx
             THEN walk(W, blanks, meta, mid, hi, first)
             ELSE st

\* assign.py:178-209: the walk over the well sequence
AssignWalk ==
    /\ pc = "assign_walk"
    /\ LET r == walk(wells, blank_positions, combined_metadata, 0, Len(wells),
                     [well_mapping |-> well_mapping,
                      well_labels_for_xml |-> well_labels_for_xml,
                      sample_idx |-> sample_idx])
       IN  /\ well_mapping' = r.well_mapping
           /\ well_labels_for_xml' = r.well_labels_for_xml
           /\ sample_idx' = r.sample_idx
    /\ position_idx' = Len(wells)
    /\ pc' = "assign_write"
    /\ UNCHANGED <<wellVars, blankVars, rdpVars, reduceVars, runVars, tspVars>>
    /\ UNCHANGED <<caller, inhib_shapes, excite_shapes, random_seed, inhib_tour, excite_tour,
                   combined_metadata, blank_positions, csv_file, xml_file>>

\* assign.py:211-261: the CSV and the XML are written and assign_wells returns
AssignWrite ==
    /\ pc = "assign_write"
    /\ csv_file' = well_mapping
    /\ xml_file' = well_labels_for_xml
    /\ pc' = "assign_done"
    /\ UNCHANGED <<wellVars, blankVars, rdpVars, reduceVars, runVars, tspVars>>
    /\ UNCHANGED <<caller, inhib_shapes, excite_shapes, random_seed, inhib_tour, excite_tour,
                   combined_metadata, blank_positions, position_idx, sample_idx,
                   well_mapping, well_labels_for_xml>>

(***************************************************************************)
(* Specifications.                                                         *)
\* a second invocation of assign_wells after the first has returned, on the
\* same two groups or on the two groups exchanged, with either seed; the
\* files of the first invocation stay on disk until they are rewritten
AssignAgain ==
    /\ pc = "assign_done"
    /\ run = 1
    /\ first_run' = <<[inhib_shapes |-> inhib_shapes,
                       excite_shapes |-> excite_shapes,
                       random_seed |-> random_seed,
                       num_blanks |-> num_blanks,
                       sequence_length |-> Len(wells),
                       blank_positions |-> blank_positions,
                       csv_file |-> csv_file,
                       xml_file |-> xml_file]>>
    /\ run' = 2
    /\ \E exchange \in BOOLEAN :
          /\ inhib_shapes' = IF exchange THEN excite_shapes ELSE inhib_shapes
          /\ excite_shapes' = IF exchange THEN inhib_shapes ELSE excite_shapes
    /\ random_seed' \in {25, 7}
    /\ caller' = "none"
    /\ inhib_tour' = <<>> /\ excite_tour' = <<>> /\ combined_metadata' = <<>>
    /\ blank_positions' = {} /\ position_idx' = 0 /\ sample_idx' = 0
    /\ well_mapping' = <<>> /\ well_labels_for_xml' = <<>>
    /\ wells' = <<>> /\ num_samples' = 0 /\ num_blanks' = 0
    /\ centroids' = <<>> /\ start_index' = 0
    /\ unvisited' = {} /\ current' = 0 /\ tour' = <<>> /\ greedy_tour' = <<>>
    /\ i' = 0 /\ j' = 0 /\ improved' = FALSE /\ iteration' = 0
    /\ pc' = "assign_call"
    /\ UNCHANGED <<row_idx, col_pos, quadrant_size, csv_file, xml_file, rdpVars, reduceVars>>

(***************************************************************************)
WellsIdle  == wells = <<>> /\ row_idx = 0 /\ col_pos = 0
BlanksIdle == num_samples = 0 /\ quadrant_size = DefaultQuadrantSize /\ num_blanks = 0
RdpIdle    == points = <<>> /\ epsilon = 0 /\ result = <<>>
TspLocals  ==
    /\ unvisited = {} /\ current = 0 /\ tour = <<>> /\ greedy_tour = <<>>
    /\ i = 0 /\ j = 0 /\ improved = FALSE /\ iteration = 0
TspIdle    == centroids = <<>> /\ start_index = 0 /\ TspLocals
AssignLocals ==
    /\ inhib_tour = <<>> /\ excite_tour = <<>> /\ combined_metadata = <<>>
    /\ blank_positions = {} /\ position_idx = 0 /\ sample_idx = 0
    /\ well_mapping = <<>> /\ well_labels_for_xml = <<>>
    /\ csv_file = "none" /\ xml_file = "none"
AssignIdle ==
    /\ caller = "none" /\ inhib_shapes = <<>> /\ excite_shapes = <<>>
    /\ random_seed = 25 /\ AssignLocals
ReduceLocals ==
    /\ reduced_shapes = <<>> /\ annotations = <<>> /\ idx = 0
    /\ initial_points = 0 /\ final_points = 0 /\ output_file = <<>>
ReduceIdle == shapes = <<>> /\ caps = <<>> /\ ReduceLocals
RunIdle    == run = 1 /\ first_run = <<>>

\* generate_serpentine_wells()
InitWells ==
    /\ pc = "phase1"
    /\ WellsIdle /\ BlanksIdle /\ RdpIdle /\ TspIdle /\ AssignIdle /\ ReduceIdle /\ RunIdle
NextWells == Phase1Append \/ Phase2Append \/ Phase3Append \/ Phase4Append \/ WellsReturn
SpecWells == InitWells /\ [][NextWells]_vars

\* calculate_dynamic_blanks(x, q) for every x in 0..MaxSamples and q in
\* 1..MaxQuadrant or the default 77
InitBlanks ==
    /\ pc = "blanks_call"
    /\ WellsIdle
    /\ num_samples \in 0..MaxSamples
    /\ quadrant_size \in (1..MaxQuadrant) \cup {DefaultQuadrantSize}
    /\ num_blanks = 0
    /\ RdpIdle /\ TspIdle /\ AssignIdle /\ ReduceIdle /\ RunIdle
NextBlanks == CalculateDynamicBlanks
SpecBlanks == InitBlanks /\ [][NextBlanks]_vars

\* rdp_algorithm(points, epsilon) for every shape of 2..MaxPts grid points
RdpGrid == (0..RdpMaxX) \X (0..RdpMaxY)
InitRdp ==
    /\ pc = "rdp_call"
    /\ WellsIdle /\ BlanksIdle
    /\ \E n \in 2..MaxPts : points \in [1..n -> RdpGrid]
    /\ epsilon \in 0..MaxEpsilon
    /\ result = <<>>
    /\ TspIdle /\ AssignIdle /\ ReduceIdle /\ RunIdle
NextRdp == RdpCall
SpecRdp == InitRdp /\ [][NextRdp]_vars

\* reduce_xml_file on a parsed file of 0..MaxShapes shapes, with a CapID for
\* every shape or for none
ReducePool ==
    { <<<<0, 0>>>>,
      <<<<0, 0>>, <<1, 0>>>>,
      <<<<0, 0>>, <<1, 1>>, <<2, 0>>>>,
      <<<<0, 0>>, <<0, 1>>, <<0, 0>>, <<1, 0>>>> }
InitReduce ==
    /\ pc = "reduce_call"
    /\ WellsIdle /\ BlanksIdle /\ TspIdle /\ AssignIdle /\ RunIdle
    /\ \E n \in 0..MaxShapes : shapes \in [1..n -> ReducePool]
    /\ caps \in {<<>>, [k \in 1..Len(shapes) |-> FormatWell("A", k)]}
    /\ epsilon \in 0..MaxEpsilon
    /\ points = <<>> /\ result = <<>>
    /\ ReduceLocals
NextReduce == ReduceCall \/ ReduceShape \/ ReduceWrite
SpecReduce == InitReduce /\ [][NextReduce]_vars

\* optimize_tsp(centroids, start_index) for 0..MaxN grid points; start_index
\* ranges over 0..n, so n itself is the out-of-range argument
TspGrid == (0..TspMaxX) \X (0..TspMaxY)
InitTsp ==
    /\ pc = "greedy_call"
    /\ WellsIdle /\ BlanksIdle /\ RdpIdle
    /\ \E n \in 0..MaxN : centroids \in [1..n -> TspGrid]
    /\ start_index \in 0..Len(centroids)
    /\ TspLocals
    /\ AssignIdle /\ ReduceIdle /\ RunIdle
NextTsp ==
    \/ GreedyStart \/ GreedyStep \/ GreedyReturn
    \/ TwoOptPassBegin \/ TwoOptReverse \/ TwoOptKeep \/ TwoOptPassEnd \/ TwoOptReturn
SpecTsp == InitTsp /\ [][NextTsp]_vars

\* assign_wells(inhib_file, excite_file, .., random_seed) on parsed groups of
\* 0..MaxGroup shapes or of all four shapes, and on one pair of groups too
\* large for the plate
\* four shapes, with centroids (0,0), (0,1), (0,2) and (1,2)
AssignShapes ==
    { <<<<0, 0>>>>,
      <<<<0, 0>>, <<0, 2>>>>,
      <<<<0, 2>>>>,
      <<<<0, 2>>, <<2, 2>>, <<1, 2>>>> }
SmallGroups == UNION {[1..n -> AssignShapes] : n \in 0..MaxGroup}
\* the groups that hold each of the four shapes once, in any order
FullGroups ==
    {g \in [1..Cardinality(AssignShapes) -> AssignShapes] :
        \A a, b \in DOMAIN g : a # b => g[a] # g[b]}
BigGroup == [k \in 1..BigGroupSize |-> <<<<(k - 1) % 3, 0>>>>]
InitAssign ==
    /\ pc = "assign_call"
    /\ WellsIdle /\ BlanksIdle /\ RdpIdle /\ TspIdle
    /\ caller = "none"
    /\ \/ /\ inhib_shapes \in SmallGroups \cup FullGroups
          /\ excite_shapes \in SmallGroups \cup FullGroups
       \/ inhib_shapes = BigGroup /\ excite_shapes = BigGroup
    /\ random_seed \in {25, 7}
    /\ AssignLocals
    /\ ReduceIdle /\ RunIdle
NextAssign ==
    \/ AssignStart \/ AssignTspRaises \/ AssignLink \/ AssignCombine \/ AssignBlanks
    \/ AssignWalk \/ AssignWrite
    \/ GreedyStart \/ GreedyStep \/ GreedyReturn
    \/ TwoOptPassBegin \/ TwoOptReverse \/ TwoOptKeep \/ TwoOptPassEnd \/ TwoOptReturn
SpecAssign == InitAssign /\ [][NextAssign]_vars

\* two invocations of assign_wells in a row, the first on groups of 0..MaxGroup
\* shapes or on one group of all four shapes
RepeatGroups == SmallGroups \cup {<<<<<<0, 0>>>>, <<<<0, 2>>>>, <<<<0, 0>>, <<0, 2>>>>,
                                  <<<<0, 2>>, <<2, 2>>, <<1, 2>>>>>>}
InitRepeat ==
    /\ pc = "assign_call"
    /\ WellsIdle /\ BlanksIdle /\ RdpIdle /\ TspIdle
    /\ caller = "none"
    /\ inhib_shapes \in RepeatGroups
    /\ excite_shapes \in RepeatGroups
    /\ random_seed \in {25, 7}
    /\ AssignLocals
    /\ ReduceIdle /\ RunIdle
NextRepeat == NextAssign \/ AssignAgain
SpecRepeat == InitRepeat /\ [][NextRepeat]_vars

(***************************************************************************)
(* C1: generate_serpentine_wells() returns the four-phase list described   *)
(* by the specification, in order: rows B..N over even columns, row N over *)
(* odd columns descending, rows L..B over odd columns, rows C..O over even *)
(* columns, each serpentine starting left-to-right; 231 wells, all         *)
(* different.                                                              *)
(***************************************************************************)
EvenCols == [k \in 1..11 |-> 2 * k]
OddCols  == [k \in 1..11 |-> 2 * k + 1]

\* row number r (1-based) of a serpentine over cols: left-to-right when r is odd
SnakeRow(row, cols, r) ==
    [k \in 1..Len(cols) |->
        row \o ToString(IF r % 2 = 1 THEN cols[k] ELSE cols[Len(cols) + 1 - k])]

RECURSIVE Snake(_, _, _)
Snake(rows, cols, r) ==
    IF r > Len(rows) THEN <<>> ELSE SnakeRow(rows[r], cols, r) \o Snake(rows, cols, r + 1)

ExpectedWells ==
    Snake(<<"B", "D", "F", "H", "J", "L", "N">>, EvenCols, 1)
    \o [k \in 1..11 |-> "N" \o ToString(25 - 2 * k)]
    \o Snake(<<"L", "J", "H", "F", "D", "B">>, OddCols, 1)
    \o Snake(<<"C", "E", "G", "I", "K", "M", "O">>, EvenCols, 1)

NoDuplicates(s) == \A a, b \in 1..Len(s) : a # b => s[a] # s[b]

C1_SerpentineList ==
    /\ wells = SubSeq(ExpectedWells, 1, Len(wells))
    /\ pc = "wells_done" =>
          /\ wells = ExpectedWells
          /\ Len(wells) = 231
          /\ NoDuplicates(wells)

C1_Witness ==
    /\ pc = "wells_done"
    /\ Len(wells) = 231
    /\ wells[1] = "B2" /\ wells[77] = "N22" /\ wells[78] = "N23"
    /\ wells[89] = "L3" /\ wells[154] = "B3" /\ wells[155] = "C2" /\ wells[231] = "O22"

(***************************************************************************)
(* C7: for x >= 0 and q >= 1, calculate_dynamic_blanks(x, q) lies in        *)
(* 0..q-1, x plus it is a multiple of q, and it is 0 exactly when x is a   *)
(* multiple of q; blanks(77,77) = 0 and blanks(78,77) = 76.                *)
(***************************************************************************)
IsMultiple(a, q) == \E m \in 0..a : a = m * q

C7_BlanksCompleteQuadrant ==
    pc = "blanks_done" =>
        /\ num_blanks \in 0..(quadrant_size - 1)
        /\ IsMultiple(num_samples + num_blanks, quadrant_size)
        /\ (num_blanks = 0) <=> IsMultiple(num_samples, quadrant_size)
        /\ (num_samples = 77 /\ quadrant_size = 77) => num_blanks = 0
        /\ (num_samples = 78 /\ quadrant_size = 77) => num_blanks = 76

C7_Witness ==
    /\ pc = "blanks_done"
    /\ num_samples = 78 /\ quadrant_size = 77 /\ num_blanks = 76

(***************************************************************************)
(* C4: for epsilon >= 0 and a shape of at least 2 points, the output of    *)
(* rdp_algorithm is an order-preserving subsequence of the input (its      *)
(* points come from strictly increasing input positions) and has between  *)
(* 2 and len(input) points.                                                *)
(***************************************************************************)
C4_RdpSubsequence ==
    pc = "rdp_done" =>
        /\ \A k \in 1..Len(result) : result[k] \in 1..Len(points)
        /\ \A k \in 1..(Len(result) - 1) : result[k] < result[k + 1]
        /\ 2 <= Len(result)
        /\ Len(result) <= Len(points)

C4_Witness ==
    /\ pc = "rdp_done"
    /\ Len(points) = 4
    /\ result = <<1, 2, 4>>

(***************************************************************************)
(* C5: for each pair of consecutive, distinct output points, taken from    *)
(* input positions a < b, every input point at a position between a and b  *)
(* lies within epsilon of the line through the two output points.          *)
(***************************************************************************)
WithinEpsilon(p, a, b) ==
    4 * cross(Minus(b, a), Minus(p, a)) * cross(Minus(b, a), Minus(p, a))
        <= epsilon * epsilon * norm_sq(Minus(b, a))

C5_RdpWithinTolerance ==
    pc = "rdp_done" =>
        \A k \in 1..(Len(result) - 1) :
            points[result[k]] # points[result[k + 1]] =>
                \A m \in (result[k] + 1)..(result[k + 1] - 1) :
                    WithinEpsilon(points[m], points[result[k]], points[result[k + 1]])

(***************************************************************************)
(* C6: the simplified output starts with the first point of the shape and  *)
(* ends with its last point.                                               *)
(***************************************************************************)
C6_RdpKeepsEndpoints ==
    pc = "rdp_done" =>
        /\ points[result[1]] = points[1]
        /\ points[result[Len(result)]] = points[Len(points)]

(***************************************************************************)
(* C2: for n >= 1 centroids and start_index in 0..n-1 the tour is a        *)
(* permutation of 0..n-1 when greedy_tsp returns, after every 2-opt        *)
(* reversal, and when optimize_tsp returns.                                *)
(***************************************************************************)
IsPermutation(t, n) ==
    /\ Len(t) = n
    /\ \A k \in 0..(n - 1) : \E p \in 1..n : t[p] = k
    /\ \A p, q \in 1..n : p # q => t[p] # t[q]

C2_TourIsPermutation ==
    (pc \in {"two_opt_while", "two_opt_for", "tsp_done"}) =>
        /\ IsPermutation(tour, Len(centroids))
        /\ IsPermutation(greedy_tour, Len(centroids))

C2_Witness ==
    /\ pc = "tsp_done"
    /\ Len(centroids) = 4
    /\ tour # greedy_tour
    /\ start_index = 2

(***************************************************************************)
(* C3: the closed-loop length (last -> first included) of the tour         *)
(* optimize_tsp returns is at most that of the greedy tour, and every      *)
(* accepted reversal strictly decreases the closed-loop length.            *)
(***************************************************************************)
\* the squared lengths of the edges of the closed loop t
LoopEdges(C, t) ==
    [k \in 1..Len(t) |-> dist_sq(At(C, t[k]), At(C, t[(k % Len(t)) + 1]))]

RemoveAt(s, k) == SubSeq(s, 1, k - 1) \o SubSeq(s, k + 1, Len(s))

\* A and B without the lengths they share, as <<A', B'>>
RECURSIVE Cancel(_, _)
Cancel(A, B) ==
    IF A = <<>> THEN <<A, B>>
    ELSE IF \E k \in 1..Len(B) : B[k] = Head(A)
         THEN Cancel(Tail(A), RemoveAt(B, CHOOSE k \in 1..Len(B) : B[k] = Head(A)))
         ELSE LET r == Cancel(Tail(A), B) IN <<<<Head(A)>> \o r[1], r[2]>>

\* floor(sqrt(x)) by bisection on lo..hi, lo * lo <= x < hi * hi
RECURSIVE Isqrt(_, _, _)
Isqrt(x, lo, hi) ==
    IF hi - lo <= 1 THEN lo
    ELSE LET mid == (lo + hi) \div 2
         IN  IF mid * mid <= x THEN Isqrt(x, mid, hi) ELSE Isqrt(x, lo, mid)

\* 1000 * sqrt(d) rounded down and rounded up
SqrtDown(d) == Isqrt(d * 1000000, 0, 46000)
SqrtUp(d) == IF SqrtDown(d) * SqrtDown(d) = d * 1000000 THEN SqrtDown(d) ELSE SqrtDown(d) + 1

RECURSIVE SumDown(_)
SumDown(s) == IF s = <<>> THEN 0 ELSE SqrtDown(Head(s)) + SumDown(Tail(s))

RECURSIVE SumUp(_)
SumUp(s) == IF s = <<>> THEN 0 ELSE SqrtUp(Head(s)) + SumUp(Tail(s))

Pad2(s) == s \o [k \in 1..(2 - Len(s)) |-> 0]

\* the sum of the square roots of A is less than that of B: exact for up to
\* two differing edges on each side, by enclosing bounds beyond that
LengthLess(A, B) ==
    LET a == Cancel(A, B)[1]
        b == Cancel(A, B)[2]
    IN  IF Len(a) <= 2 /\ Len(b) <= 2
        THEN SumLess(Pad2(a)[1], Pad2(a)[2], Pad2(b)[1], Pad2(b)[2])
        ELSE SumUp(a) < SumDown(b)

LengthLeq(A, B) == Cancel(A, B)[1] = <<>> \/ LengthLess(A, B)

C3_TwoOptNeverLonger ==
    [][/\ (pc = "two_opt_for" /\ tour' # tour) =>
              LengthLess(LoopEdges(centroids, tour'), LoopEdges(centroids, tour))
       /\ pc' = "tsp_done" =>
              LengthLeq(LoopEdges(centroids', tour'), LoopEdges(centroids', greedy_tour'))]_vars

C3_Witness ==
    /\ pc = "tsp_done"
    /\ tour # greedy_tour
    /\ LengthLess(LoopEdges(centroids, tour), LoopEdges(centroids, greedy_tour))

(***************************************************************************)
(* C8: when the specimens and the blanks fit the well sequence, the        *)
(* specimens on the non-blank wells, read in well-sequence order, are      *)
(* Group A's shapes in Group A's tour order followed by Group B's shapes   *)
(* in Group B's tour order, each combined entry on exactly one well.       *)
(***************************************************************************)
NonBlank(mapping) == {k \in 1..Len(mapping) : mapping[k].source_file # "BLANK"}

Stamp(e) == <<e.source_file, e.original_shape_index>>

ExpectedStamps ==
    [k \in 1..Len(inhib_tour) |-> <<"inhib0", inhib_tour[k]>>]
    \o [k \in 1..Len(excite_tour) |-> <<"excite0", excite_tour[k]>>]

Fits == Len(inhib_shapes) + Len(excite_shapes) + num_blanks <= Len(wells)

C8_CollectionOrder ==
    (pc \in {"assign_write", "assign_done"} /\ Fits) =>
        LET nb == NonBlank(well_mapping)
        IN  /\ Cardinality(nb) = Len(ExpectedStamps)
            /\ \A k \in nb :
                   LET rank == Cardinality({m \in nb : m < k})
                   IN  /\ well_mapping[k].sample_index = rank
                       /\ Stamp(well_mapping[k]) = ExpectedStamps[rank + 1]
            /\ \A a, b \in 1..Len(well_mapping) :
                   a < b => well_mapping[a].serpentine_order < well_mapping[b].serpentine_order
            /\ NoDuplicates([k \in 1..Len(well_mapping) |-> well_mapping[k].well_position])

C8_Witness ==
    /\ pc = "assign_done"
    /\ Fits
    /\ Len(inhib_shapes) = 4 /\ inhib_tour # <<0, 1, 2, 3>>
    /\ Len(excite_shapes) = 4 /\ excite_tour[1] # 0
    /\ Cardinality(NonBlank(csv_file)) = 8

(***************************************************************************)
(* C9: with S specimens and B blanks, S + B <= 231, the wells that receive *)
(* a specimen or a BLANK marker are exactly the first S + B positions of   *)
(* the well sequence.                                                      *)
(***************************************************************************)
C9_OnlyFirstPositionsUsed ==
    (pc \in {"assign_write", "assign_done"} /\ Fits) =>
        {well_mapping[k].serpentine_order : k \in 1..Len(well_mapping)}
            = 0..(Len(inhib_shapes) + Len(excite_shapes) + num_blanks - 1)

(***************************************************************************)
(* C10: when the specimens and the blanks exceed the well sequence,        *)
(* assign_wells ends in an error: it neither returns normally nor writes   *)
(* an assignment that leaves specimens without a well.                     *)
(***************************************************************************)
C10_OverflowIsAnError == pc = "assign_done" => Fits

(***************************************************************************)
(* C17: every block of 77 consecutive positions of the well sequence that  *)
(* starts at a multiple of 77 lies in one quadrant: get_quadrant is B2 for *)
(* positions 0..76, B3 for 77..153 and C2 for 154..230, and never C3.      *)
(***************************************************************************)
BlockQuadrant(pos) ==
    IF pos \div 77 = 0 THEN "B2" ELSE IF pos \div 77 = 1 THEN "B3" ELSE "C2"

C17_BlocksAreQuadrants ==
    /\ \A k \in 1..Len(wells) : get_quadrant(wells[k]) = BlockQuadrant(k - 1)
    /\ pc = "wells_done" => Len(wells) = 3 * 77

C17_Witness ==
    /\ pc = "wells_done"
    /\ get_quadrant(wells[77]) = "B2" /\ get_quadrant(wells[78]) = "B3"
    /\ get_quadrant(wells[154]) = "B3" /\ get_quadrant(wells[155]) = "C2"
    /\ get_quadrant(wells[231]) = "C2"

(***************************************************************************)
(* C18: consecutive wells of the sequence, the phase boundaries included,  *)
(* differ by at most 2 in row alphabet-index and by at most 2 in column    *)
(* number, and every well lies in rows B..O and columns 2..23.             *)
(***************************************************************************)
WellRow(well) == ParseWell(well)[1] - 1

WellCol(well) == ParseWell(well)[2]

Near(a, b) == a - b \in -2..2

C18_NoLongJump ==
    /\ \A k \in 1..(Len(wells) - 1) :
           /\ Near(WellRow(wells[k]), WellRow(wells[k + 1]))
           /\ Near(WellCol(wells[k]), WellCol(wells[k + 1]))
    /\ \A k \in 1..Len(wells) :
           /\ WellRow(wells[k]) \in 1..14
           /\ WellCol(wells[k]) \in 2..23

C18_Witness ==
    /\ pc = "wells_done"
    /\ wells[11] = "B22" /\ wells[12] = "D22"
    /\ wells[77] = "N22" /\ wells[78] = "N23"
    /\ wells[88] = "N3" /\ wells[89] = "L3"
    /\ wells[154] = "B3" /\ wells[155] = "C2"

(***************************************************************************)
(* C16: for a shape of at least 2 points and epsilon >= 0, when every      *)
(* point is within epsilon of the chord from the first to the last point   *)
(* (of the point itself when the chord is degenerate), rdp_algorithm       *)
(* returns exactly [first, last]; (0,0),(1,0),(2,0),(3,0) with epsilon 0.5 *)
(* gives [(0,0),(3,0)].                                                    *)
(***************************************************************************)
AllWithinEpsilon ==
    LET first == points[1]
        last == points[Len(points)]
        chord == Minus(last, first)
    IN  \A k \in 1..Len(points) :
           LET v == Minus(points[k], first)
           IN  IF norm_sq(chord) = 0
               THEN 4 * norm_sq(v) <= epsilon * epsilon
               ELSE 4 * cross(chord, v) * cross(chord, v) <= epsilon * epsilon * norm_sq(chord)

C16_CollapsesToEndpoints ==
    (pc = "rdp_done" /\ AllWithinEpsilon) => result = <<1, Len(points)>>

C16_Witness ==
    /\ pc = "rdp_done"
    /\ points = <<<<0, 0>>, <<1, 0>>, <<2, 0>>, <<3, 0>>>>
    /\ epsilon = 1
    /\ AllWithinEpsilon
    /\ result = <<1, 4>>

(***************************************************************************)
(* C19: rdp_algorithm terminates for every shape of at least 2 points and  *)
(* every epsilon >= 0: in every call that recurses, the split index lies   *)
(* strictly between the first and the last index, so both recursive calls  *)
(* receive a strictly shorter sub-sequence of at least 2 points.           *)
(***************************************************************************)
RECURSIVE SplitsInside(_, _, _, _)
SplitsInside(P, lo, hi, eps) ==
    max_value_exceeds(P, lo, hi, eps) =>
        LET m == max_idx(P, lo, hi)
        IN  /\ lo < m /\ m < hi
            /\ SplitsInside(P, lo, m, eps)
            /\ SplitsInside(P, m, hi, eps)

C19_RdpTerminates ==
    Len(points) >= 2 => SplitsInside(points, 1, Len(points), epsilon)

C19_Witness ==
    /\ pc = "rdp_done"
    /\ Len(points) = 4
    /\ max_value_exceeds(points, 1, 4, epsilon)
    /\ max_idx(points, 1, 4) = 2
    /\ max_value_exceeds(points, 2, 4, epsilon)
    /\ result = <<1, 2, 3, 4>>

(***************************************************************************)
(* C12: optimize_tsp on 0 centroids returns the empty tour with distance   *)
(* 0, and on 1 centroid the tour [0] with distance 0; in both cases it     *)
(* returns normally and 2-opt performs no reversal.                        *)
(***************************************************************************)
TotalDistIsZero ==
    \A k \in 0..(Len(tour) - 1) :
        dist_sq(At(centroids, At(tour, k)), At(centroids, At(tour, (k + 1) % Len(tour)))) = 0

C12_TrivialTour ==
    (Len(centroids) <= 1 /\ start_index = 0) =>
        /\ pc # "tsp_error"
        /\ pc = "tsp_done" =>
              /\ tour = [k \in 1..Len(centroids) |-> k - 1]
              /\ tour = greedy_tour
              /\ TotalDistIsZero

(***************************************************************************)
(* C15: when two_opt_improve returns after fewer than max_iterations       *)
(* passes, the returned tour is a local optimum of its move set: for no    *)
(* tour positions 1 <= i < j <= n-1 is                                     *)
(* d(tour[i-1],tour[j]) + d(tour[i],tour[(j+1) mod n]) strictly less than  *)
(* d(tour[i-1],tour[i]) + d(tour[j],tour[(j+1) mod n]).                    *)
(***************************************************************************)
D2(a, b) == dist_sq(At(centroids, At(tour, a)), At(centroids, At(tour, b)))

C15_LocalOptimum ==
    (pc = "tsp_done" /\ iteration < max_iterations) =>
        LET n == Len(tour)
        IN  \A a \in 1..(n - 1) : \A b \in (a + 1)..(n - 1) :
               ~SumLess(D2(a - 1, b), D2(a, (b + 1) % n), D2(a - 1, a), D2(b, (b + 1) % n))

C15_Witness ==
    /\ pc = "tsp_done"
    /\ Len(tour) = 4
    /\ tour # greedy_tour
    /\ iteration = 2

(***************************************************************************)
(* C14: in every assign_wells run with both groups non-empty, the first    *)
(* element of Group B's final tour is the lowest index among the Group B   *)
(* centroids at minimum distance from the centroid of the last element of  *)
(* Group A's final tour; 2-opt on Group B never moves tour position 0.     *)
(***************************************************************************)
LastInhibCentroid == calculate_centroid(At(inhib_shapes, At(inhib_tour, Len(inhib_tour) - 1)))

ExciteDist(k) == dist_sq(LastInhibCentroid, calculate_centroid(At(excite_shapes, k)))

IsLowestClosest(k) ==
    /\ k \in 0..(Len(excite_shapes) - 1)
    /\ \A m \in 0..(Len(excite_shapes) - 1) : ExciteDist(k) <= ExciteDist(m)
    /\ \A m \in 0..(k - 1) : ExciteDist(m) > ExciteDist(k)

C14_LinkStartsExciteTour ==
    /\ (caller = "excite" /\ pc \in {"greedy_loop", "two_opt_while", "two_opt_for", "tsp_done"})
           => IsLowestClosest(At(tour, 0))
    /\ pc \in {"assign_blanks", "assign_walk", "assign_write", "assign_done"}
           => IsLowestClosest(At(excite_tour, 0))

C14_Witness ==
    /\ pc = "assign_done"
    /\ Len(excite_shapes) = 4
    /\ excite_tour # greedy_tour
    /\ At(excite_tour, 0) # 0
    /\ IsLowestClosest(At(excite_tour, 0))

(***************************************************************************)
(* C11: an operation given an empty shape list (reduce_xml_file on a file  *)
(* with no shapes; assign_wells with an empty Group A or an empty Group B) *)
(* fails with an error before any output (XML or CSV) is written.          *)
(***************************************************************************)
C11_EmptyInputFails ==
    /\ (pc \in {"reduce_loop", "reduce_done"} /\ shapes = <<>>)
           => (pc # "reduce_done" /\ output_file = <<>>)
    /\ (caller # "none" /\ (inhib_shapes = <<>> \/ excite_shapes = <<>>))
           => (pc # "assign_done" /\ csv_file = "none" /\ xml_file = "none")

(***************************************************************************)
(* C13: two runs of assign_wells on identical group inputs with the        *)
(* identical random_seed produce the identical set of blank positions and  *)
(* the identical well-to-specimen mapping; the blank positions depend on   *)
(* nothing but (blank count, sequence length, seed).                       *)
(***************************************************************************)
SameArguments ==
    /\ inhib_shapes = first_run[1].inhib_shapes
    /\ excite_shapes = first_run[1].excite_shapes
    /\ random_seed = first_run[1].random_seed

SameDraw ==
    /\ num_blanks = first_run[1].num_blanks
    /\ Len(wells) = first_run[1].sequence_length
    /\ random_seed = first_run[1].random_seed

C13_WitnessOtherGroups ==
    /\ run = 2
    /\ pc = "assign_done"
    /\ SameDraw
    /\ inhib_shapes # first_run[1].inhib_shapes
    /\ csv_file # first_run[1].csv_file
    /\ blank_positions = first_run[1].blank_positions

====
